---- MODULE Spec2Model ----
(***************************************************************************)
(* FeatureEngineer of finrl/preprocessing/preprocessors.py.                *)
(*                                                                         *)
(* A panel (pandas DataFrame with the default RangeIndex) is a function    *)
(* from column names to columns, every column a sequence of the same       *)
(* length; row p of the panel is position p of every column.  The key      *)
(* columns "date" and "tic" hold integers.  Every other column holds       *)
(* floats, kept exact: a float is a fraction <<n, d>> in lowest terms with *)
(* d > 0, and the missing value (NaN) is <<0, 0>>.                         *)
(*                                                                         *)
(* The file's def ichimoku (lines 80-127) has its body at the indentation  *)
(* of the def; the methods are modelled as they are written one by one.    *)
(***************************************************************************)
EXTENDS Integers, Sequences, FiniteSets, TLC

VARIABLES
    self_df,                  \* self.df
    use_technical_indicator,  \* self.use_technical_indicator
    tech_indicator_list,      \* self.tech_indicator_list
    use_turbulence,           \* self.use_turbulence
    user_defined_feature,     \* self.user_defined_feature
    ichimoko,                 \* self.ichimoko
    fails,                    \* <<indicator, tic>> pairs for which stockstats raises
    pc,                       \* position in preprocess_data
    df,                       \* local df of preprocess_data
    ind_df,                   \* local df of add_technical_indicator after line 148
    turbulence_index,         \* what calcualte_turbulence produced
    ret,                      \* the panel preprocess_data returned
    exc,                      \* the exception that escaped, "none" if none
    stages                    \* the stages that ran, in order

vars == <<self_df, use_technical_indicator, tech_indicator_list, use_turbulence,
          user_defined_feature, ichimoko, fails, pc, df, ind_df,
          turbulence_index, ret, exc, stages>>

----------------------------------------------------------------------------
(* Bounds of the model.                                                    *)

\* rows of a short panel
MaxRows == 3
\* dates of a long panel beyond the warm-up
MaxExtra == 4

----------------------------------------------------------------------------
(* Floats, exact.                                                          *)

NaN == <<0, 0>>

IsNaN(x) == x[2] = 0

Num(n) == <<n, 1>>

Abs(n) == IF n < 0 THEN -n ELSE n

RECURSIVE Gcd(_, _)
Gcd(a, b) == IF b = 0 THEN a ELSE Gcd(b, a % b)

\* n / d as a float; x / 0 is modelled only where the code cannot divide by 0
Frac(n, d) ==
    LET g == Gcd(Abs(n), Abs(d))
        s == IF d < 0 THEN -1 ELSE 1
    IN  <<(s * n) \div g, (s * d) \div g>>

FSub(a, b) ==
    IF IsNaN(a) \/ IsNaN(b) THEN NaN
    ELSE Frac(a[1] * b[2] - b[1] * a[2], a[2] * b[2])

FMul(a, b) ==
    IF IsNaN(a) \/ IsNaN(b) THEN NaN
    ELSE LET g1 == Gcd(Abs(a[1]), b[2])
             g2 == Gcd(Abs(b[1]), a[2])
         IN  <<(a[1] \div g1) * (b[1] \div g2), (a[2] \div g2) * (b[2] \div g1)>>

\* 1 / a, a # 0
FInv(a) == IF a[1] < 0 THEN <<-a[2], -a[1]>> ELSE <<a[2], a[1]>>

Positive(x) == x[2] > 0 /\ x[1] > 0

----------------------------------------------------------------------------
(* pandas helpers.                                                         *)

NRows(data) == Len(data["date"])

Columns(data) == DOMAIN data

KeyColumns == {"date", "tic"}

Range(s) == {s[k] : k \in 1..Len(s)}

\* l, then the values of r that are not in seen = Range(l)
AppendNew(l, r, seen) == l \o SelectSeq(r, LAMBDA x : x \notin seen)

RECURSIVE UniqueRange(_, _, _)
UniqueHalves(l, r) == AppendNew(l, r, Range(l))
UniqueRange(s, a, b) ==
    IF a = b THEN <<s[a]>>
    ELSE UniqueHalves(UniqueRange(s, a, (a + b) \div 2),
                      UniqueRange(s, (a + b) \div 2 + 1, b))

\* Series.unique(): the distinct values in order of first appearance
unique(s) == IF s = <<>> THEN <<>> ELSE UniqueRange(s, 1, Len(s))

\* the function keys[k] |-> vals[k], k in a..b, the keys distinct
RECURSIVE MapRange(_, _, _, _)
MapRange(keys, vals, a, b) ==
    IF a = b THEN keys[a] :> vals[a]
    ELSE MapRange(keys, vals, a, (a + b) \div 2)
         @@ MapRange(keys, vals, (a + b) \div 2 + 1, b)

IntLess(a, b) == a < b

\* rows taken in the order perm
TakeRows(data, perm) ==
    [c \in Columns(data) |-> [k \in 1..Len(perm) |-> data[c][perm[k]]]]

\* row p before row q in the order of (date, tic)
RowLess(data, p, q) ==
    \/ data["date"][p] < data["date"][q]
    \/ /\ data["date"][p] = data["date"][q]
       /\ data["tic"][p] < data["tic"][q]

\* sort_values(['date','tic']).reset_index(drop=True)
sort_values(data) ==
    TakeRows(data, SortSeq([p \in 1..NRows(data) |-> p],
                           LAMBDA p, q : RowLess(data, p, q)))

----------------------------------------------------------------------------
(* calcualte_turbulence, lines 189-220.                                    *)

\* start = 252, line 196
start == 252

\* df.pivot(index='date', columns='tic', values='close'): the index, the
\* sorted distinct dates
pivot_index(data) == SortSeq(unique(data["date"]), IntLess)

\* the cells date -> tic -> close of the pivot, NaN where cells has none
PivotOf(cells, dates, tics) ==
    [d \in dates |->
        [t \in tics |-> IF <<d, t>> \in DOMAIN cells THEN cells[<<d, t>>] ELSE NaN]]

\* df.pivot(...): the cells, NaN where the panel has no row for
\* (date, tic).  The panels have one row per (date, tic).
pivot(data) ==
    PivotOf(MapRange([p \in 1..NRows(data) |-> <<data["date"][p], data["tic"][p]>>],
                     data["close"], 1, NRows(data)),
            Range(data["date"]), Range(data["tic"]))

\* c[a] + ... + c[b]
RECURSIVE SumRange(_, _, _)
SumRange(c, a, b) ==
    IF a > b THEN 0
    ELSE IF a = b THEN c[a]
    ELSE SumRange(c, a, (a + b) \div 2) + SumRange(c, (a + b) \div 2 + 1, b)

SumSeq(c, k) == SumRange(c, 1, k)

\* the ticker column of a one-ticker pivot
TheTic(df_price_pivot, unique_date) ==
    CHOOSE t \in DOMAIN df_price_pivot[unique_date[1]] : TRUE

\* line 202: hist_price, the closes at the dates unique_date[0:i]
hist_price(df_price_pivot, unique_date, i) ==
    [j \in 1..i |->
        df_price_pivot[unique_date[j]][TheTic(df_price_pivot, unique_date)][1]]

\* line 201: current_price, the close at the date unique_date[i]
current_price(df_price_pivot, unique_date, i) ==
    df_price_pivot[unique_date[i + 1]][TheTic(df_price_pivot, unique_date)]

Squares(c) == [j \in 1..Len(c) |-> c[j] * c[j]]

\* np.mean(hist_price, axis=0) from the column's length and sum
MeanOf(n, Sx) == Frac(Sx, n)

\* line 203: hist_price.cov(), the sample variance, from the column's
\* length, sum and sum of squares
CovOf(n, Sx, Sxx) == Frac(n * Sxx - Sx * Sx, n * (n - 1))

\* line 205: np.linalg.inv raises LinAlgError when the matrix is singular
Quadratic(current_temp, cov_temp) ==
    IF cov_temp[1] = 0
    THEN [exc |-> "LinAlgError", temp |-> NaN]
    ELSE [exc |-> "none",
          temp |-> FMul(FMul(current_temp, FInv(cov_temp)), current_temp)]

\* lines 203-205 from current_price and the hist_price column h
ScoreOf(current, h) ==
    Quadratic(FSub(current, MeanOf(Len(h), SumSeq(h, Len(h)))),
              CovOf(Len(h), SumSeq(h, Len(h)), SumSeq(Squares(h), Len(h))))

\* Lines 201-205 for python index i: the 1x1 matrix temp, or the
\* LinAlgError of np.linalg.inv.  The loop runs only on panels of more than
\* start dates, which carry one ticker and integer closes: the covariance
\* matrix is the 1x1 matrix of the ticker's sample variance.
Score(df_price_pivot, unique_date, i) ==
    ScoreOf(current_price(df_price_pivot, unique_date, i),
            hist_price(df_price_pivot, unique_date, i))

\* Damp with the count starting again at every score that is not positive
DampReset(temp, count) ==
    IF Positive(temp)
    THEN IF count + 1 > 2
         THEN [count |-> count + 1, turbulence_temp |-> temp]
         ELSE [count |-> count + 1, turbulence_temp |-> Num(0)]
    ELSE [count |-> 0, turbulence_temp |-> Num(0)]

\* Lines 206-214: the new count and turbulence_temp
Damp(temp, count) ==
    IF Positive(temp)
    THEN IF count + 1 > 2
         THEN [count |-> count + 1, turbulence_temp |-> temp]
         ELSE [count |-> count + 1, turbulence_temp |-> Num(0)]
    ELSE [count |-> count, turbulence_temp |-> Num(0)]

RECURSIVE TurbulenceLoop(_, _, _, _, _, _)
RECURSIVE LoopBody(_, _, _, _, _, _, _)
RECURSIVE LoopAppend(_, _, _, _, _, _, _)

\* Lines 200-215: the loop from python index i on
TurbulenceLoop(df_price_pivot, unique_date, i, count, acc, temps) ==
    IF i >= Len(unique_date)
    THEN [exc |-> "none", turbulence |-> acc, temps |-> temps]
    ELSE LoopBody(df_price_pivot, unique_date, i, count, acc, temps,
                  Score(df_price_pivot, unique_date, i))

\* lines 205-206: s is what line 205 gave
LoopBody(df_price_pivot, unique_date, i, count, acc, temps, s) ==
    IF s.exc # "none"
    THEN [exc |-> s.exc, turbulence |-> acc, temps |-> temps]
    ELSE LoopAppend(df_price_pivot, unique_date, i, acc, temps, s.temp,
                    Damp(s.temp, count))

\* line 215: d is what lines 206-214 gave
LoopAppend(df_price_pivot, unique_date, i, acc, temps, temp, d) ==
    TurbulenceLoop(df_price_pivot, unique_date, i + 1, d.count,
                   Append(acc, d.turbulence_temp), Append(temps, temp))

\* lines 218-220: the DataFrame constructor raises ValueError when its two
\* columns differ in length
TurbulenceFrame(index, loop) ==
    IF loop.exc # "none"
    THEN [exc |-> loop.exc, date |-> <<>>, turbulence |-> <<>>,
          temps |-> loop.temps]
    ELSE IF Len(loop.turbulence) # Len(index)
    THEN [exc |-> "ValueError", date |-> <<>>, turbulence |-> <<>>,
          temps |-> loop.temps]
    ELSE [exc |-> "none", date |-> index, turbulence |-> loop.turbulence,
          temps |-> loop.temps]

\* calcualte_turbulence(data): exc, the frame's columns date and
\* turbulence, and temps, the raw temp of every iteration of the loop
calcualte_turbulence(data) ==
    TurbulenceFrame(pivot_index(data),
                    TurbulenceLoop(pivot(data), unique(data["date"]), start, 0,
                                   [k \in 1..start |-> Num(0)], <<>>))

----------------------------------------------------------------------------
(* add_turbulence, lines 176-186.                                          *)

\* data with column name set to col (df[name] = col, the index aligned)
SetColumn(data, name, col) ==
    [c \in Columns(data) \cup {name} |-> IF c = name THEN col ELSE data[c]]

\* the turbulence of every date of the frame t
ByDate(t) == MapRange(t.date, t.turbulence, 1, Len(t.date))

\* the column data["date"] looked up in by_date
Lookup(by_date, dates) == [p \in 1..Len(dates) |-> by_date[dates[p]]]

\* df.merge(turbulence_index, on='date'): the inner join keeps the rows of
\* the left frame in their order, each with the turbulence of its date
merge(data, t) ==
    SetColumn(data, "turbulence", Lookup(ByDate(t), data["date"]))

\* lines 184-186, t the frame of line 183
MergeSorted(data, t) ==
    IF t.exc # "none"
    THEN [exc |-> t.exc, df |-> data, turbulence_index |-> t]
    ELSE [exc |-> "none", df |-> sort_values(merge(data, t)),
          turbulence_index |-> t]

\* add_turbulence(data): exc, the frame returned, and the frame of
\* calcualte_turbulence
add_turbulence(data) == MergeSorted(data, calcualte_turbulence(data))

----------------------------------------------------------------------------
(* add_user_defined_feature, lines 161-173.                                *)

\* Series.pct_change(1) of a column without missing values
pct_change(col) ==
    [p \in 1..Len(col) |->
        IF p = 1 THEN NaN
        ELSE FSub(FMul(col[p], FInv(col[p - 1])), Num(1))]

add_user_defined_feature(data) ==
    SetColumn(data, "daily_return", pct_change(data["close"]))

----------------------------------------------------------------------------
(* The gap-fill of preprocess_data, line 77.                               *)

\* the backward pass over col[a..b]: a missing cell takes the value the
\* pass has in the cell after it; nxt is that value after col[b]
RECURSIVE BfillRange(_, _, _, _)
BfillLeft(col, a, m, right) == BfillRange(col, a, m, right[1]) \o right
BfillRange(col, a, b, nxt) ==
    IF a = b THEN <<IF IsNaN(col[a]) THEN nxt ELSE col[a]>>
    ELSE BfillLeft(col, a, (a + b) \div 2,
                   BfillRange(col, (a + b) \div 2 + 1, b, nxt))

\* fillna(method='bfill') of one column
bfill(col) == IF col = <<>> THEN col ELSE BfillRange(col, 1, Len(col), NaN)

\* the forward pass over col[a..b]: a missing cell takes the value the
\* pass has in the cell before it; prev is that value before col[a]
RECURSIVE FfillRange(_, _, _, _)
FfillRight(col, m, b, left) == left \o FfillRange(col, m + 1, b, left[Len(left)])
FfillRange(col, a, b, prev) ==
    IF a = b THEN <<IF IsNaN(col[a]) THEN prev ELSE col[a]>>
    ELSE FfillRight(col, (a + b) \div 2, b,
                    FfillRange(col, a, (a + b) \div 2, prev))

\* fillna(method='ffill') of one column
ffill(col) == IF col = <<>> THEN col ELSE FfillRange(col, 1, Len(col), NaN)

\* line 77 with the two passes in the other order
FillColumnForwardFirst(col) == bfill(ffill(col))

\* line 77 without its second pass
FillColumnBackwardOnly(col) == bfill(col)

\* line 77 on one column
FillColumn(col) == ffill(bfill(col))

\* df.fillna(method='bfill').fillna(method="ffill"); the key columns date
\* and tic hold no missing value and stay as they are
fillna(data) ==
    [c \in Columns(data) |->
        IF c \in KeyColumns THEN data[c] ELSE FillColumn(data[c])]

----------------------------------------------------------------------------
(* add_technical_indicator, lines 128-159.                                 *)

\* positions of ticker t's rows, in panel order (stock[stock.tic == t])
TickerRows(data, t) ==
    SelectSeq([p \in 1..NRows(data) |-> p], LAMBDA p : data["tic"][p] = t)

RECURSIVE SumFromTo(_, _, _)
SumFromTo(c, a, b) == IF a > b THEN 0 ELSE c[b] + SumFromTo(c, a, b - 1)

\* stockstats close_<w>_sma of one ticker's closes (integers): the mean of
\* the last w closes, of fewer at the start
Sma(w, c) ==
    [p \in 1..Len(c) |->
        LET a == IF p - w + 1 < 1 THEN 1 ELSE p - w + 1
        IN  Frac(SumFromTo(c, a, p), p - a + 1)]

Window(indicator) == IF indicator = "close_2_sma" THEN 2 ELSE 3

\* stock[stock.tic == t][indicator], line 143, when it does not raise
temp_indicator(data, t, indicator) ==
    LET rows == TickerRows(data, t)
    IN  Sma(Window(indicator), [k \in 1..Len(rows) |-> data["close"][rows[k]][1]])

\* lines 140-147: indicator_df after the loop over the tickers from k on
RECURSIVE indicator_df(_, _, _, _, _, _)
indicator_df(data, indicator, unique_ticker, failing, k, acc) ==
    IF k > Len(unique_ticker) THEN acc
    ELSE IF <<indicator, unique_ticker[k]>> \in failing
         THEN indicator_df(data, indicator, unique_ticker, failing, k + 1, acc)
         ELSE indicator_df(data, indicator, unique_ticker, failing, k + 1,
                           acc \o temp_indicator(data, unique_ticker[k], indicator))

\* line 148: df[indicator] = indicator_df, aligned on the index 0..n-1
AssignIndicator(data, indicator, col) ==
    SetColumn(data, indicator,
              [p \in 1..NRows(data) |-> IF p <= Len(col) THEN col[p] ELSE NaN])

\* lines 139-148: the loop over the indicators from j on.  Assigning an
\* indicator_df that is empty (the indicator raised for every ticker)
\* raises ValueError or gives a column of missing values, with the pandas
\* version: empty_raises says which.
RECURSIVE IndicatorLoop(_, _, _, _, _, _)
IndicatorLoop(data, acc, list, failing, empty_raises, j) ==
    IF j > Len(list) THEN [exc |-> "none", df |-> acc]
    ELSE LET col == indicator_df(data, list[j], unique(data["tic"]), failing, 1, <<>>)
         IN  IF col = <<>> /\ empty_raises
             THEN [exc |-> "ValueError", df |-> acc]
             ELSE IndicatorLoop(data, AssignIndicator(acc, list[j], col), list,
                                failing, empty_raises, j + 1)

\* add_technical_indicator(data): exc and the local df when the method
\* ends.  Line 149 reads the name ichimoko, which is no local and no global
\* of the module: the method raises NameError once the loop is done.
add_technical_indicator(data, list, failing, empty_raises) ==
    LET loop == IndicatorLoop(data, data, list, failing, empty_raises, 1)
    IN  IF loop.exc # "none" THEN loop
        ELSE [exc |-> "NameError", df |-> loop.df]

----------------------------------------------------------------------------
(* The panels and options a FeatureEngineer is constructed with.           *)

Tics == {1, 2}

ShortDates == {1, 2}

\* the rows of a short panel: distinct (date, tic) pairs in any order
ShortRowSeqs ==
    UNION { { r \in [1..n -> ShortDates \X Tics] :
                \A p, q \in 1..n : p # q => r[p] # r[q] } : n \in 1..MaxRows }

\* a short panel: close and volume differ from row to row, and volume is
\* missing in the rows miss
ShortPanel(r, miss) ==
    [date   |-> [p \in 1..Len(r) |-> r[p][1]],
     tic    |-> [p \in 1..Len(r) |-> r[p][2]],
     close  |-> [p \in 1..Len(r) |-> Num(3 * r[p][1] + 5 * (r[p][2] - 1))],
     volume |-> [p \in 1..Len(r) |->
                    IF p \in miss THEN NaN ELSE Num(10 * r[p][1] + r[p][2])]]

ShortPanels ==
    UNION { { ShortPanel(r, miss) : miss \in SUBSET (1..Len(r)) } : r \in ShortRowSeqs }

Prices == {1, 2, 3}

\* the closes of the first start dates of a long panel
WarmUps == {"flat", "alternating"}

WarmClose(w, d) == IF w = "flat" THEN 2 ELSE IF d % 2 = 1 THEN 1 ELSE 3

Tails == UNION { [1..k -> Prices] : k \in 1..MaxExtra }

\* a long panel: one ticker, start + Len(tail) dates, the rows in date
\* order, or with the last two rows exchanged
LongPanel(w, tail, exchanged) ==
    LET n == start + Len(tail)
        row(p) == IF exchanged /\ p = n THEN n - 1
                  ELSE IF exchanged /\ p = n - 1 THEN n
                  ELSE p
    IN  [date   |-> [p \in 1..n |-> row(p)],
         tic    |-> [p \in 1..n |-> 1],
         close  |-> [p \in 1..n |->
                        IF row(p) <= start THEN Num(WarmClose(w, row(p)))
                        ELSE Num(tail[row(p) - start])],
         volume |-> [p \in 1..n |-> Num(10)]]

LongPanels ==
    { LongPanel(w, tail, x) : w \in WarmUps, tail \in Tails, x \in BOOLEAN }

Indicators == {"close_2_sma", "close_3_sma"}

\* config.TECHNICAL_INDICATORS_LIST, or the list the caller passes
IndicatorLists == { <<"close_2_sma">>, <<"close_2_sma", "close_3_sma">> }

\* at most one computation raises, or an indicator raises for every ticker
FailSets ==
    { f \in SUBSET (Indicators \X Tics) :
        Cardinality(f) <= 1 \/ \E i \in Indicators : f = {i} \X Tics }

NoPanel == [date |-> <<>>, tic |-> <<>>]

NoTurbulence == [exc |-> "unset", date |-> <<>>, turbulence |-> <<>>, temps |-> <<>>]

\* __init__, lines 31-44, and the entry of preprocess_data, line 56
Constructed ==
    /\ use_technical_indicator \in BOOLEAN
    /\ use_turbulence \in BOOLEAN
    /\ user_defined_feature \in BOOLEAN
    /\ ichimoko \in BOOLEAN
    /\ pc = "indicators"
    /\ df = self_df
    /\ ind_df = NoPanel
    /\ turbulence_index = NoTurbulence
    /\ ret = NoPanel
    /\ exc = "none"
    /\ stages = <<>>

\* a short panel, any options, any indicator failures
InitShort ==
    /\ self_df \in ShortPanels
    /\ tech_indicator_list \in IndicatorLists
    /\ fails \in FailSets
    /\ Constructed

\* a long panel, with the turbulence stage on and the indicator stage off
InitLong ==
    /\ self_df \in LongPanels
    /\ tech_indicator_list = <<"close_2_sma">>
    /\ fails = {}
    /\ Constructed
    /\ ~use_technical_indicator
    /\ use_turbulence
    /\ ~ichimoko

Init == InitShort \/ InitLong

----------------------------------------------------------------------------
(* preprocess_data, lines 51-78, stage by stage.                           *)

Raise(e) ==
    /\ exc' = e
    /\ pc' = "raised"
    /\ UNCHANGED <<df, ret>>

\* lines 62-63, r what add_technical_indicator gave
IndicatorsDone(r) ==
    /\ ind_df' = r.df
    /\ stages' = Append(stages, "indicators")
    /\ Raise(r.exc)

\* lines 60-63
StageIndicators ==
    /\ pc = "indicators"
    /\ IF use_technical_indicator
       THEN \E empty_raises \in BOOLEAN :
              IndicatorsDone(add_technical_indicator(df, tech_indicator_list,
                                                     fails, empty_raises))
       ELSE /\ pc' = "turbulence"
            /\ UNCHANGED <<df, ind_df, ret, exc, stages>>
    /\ UNCHANGED <<self_df, use_technical_indicator, tech_indicator_list,
                   use_turbulence, user_defined_feature, ichimoko, fails,
                   turbulence_index>>

\* lines 67-68, r what add_turbulence gave
TurbulenceDone(r) ==
    /\ turbulence_index' = r.turbulence_index
    /\ stages' = Append(stages, "turbulence")
    /\ IF r.exc # "none"
       THEN Raise(r.exc)
       ELSE /\ df' = r.df
            /\ pc' = "user"
            /\ UNCHANGED <<ret, exc>>

\* lines 66-68
StageTurbulence ==
    /\ pc = "turbulence"
    /\ IF use_turbulence
       THEN TurbulenceDone(add_turbulence(df))
       ELSE /\ pc' = "user"
            /\ UNCHANGED <<df, turbulence_index, ret, exc, stages>>
    /\ UNCHANGED <<self_df, use_technical_indicator, tech_indicator_list,
                   use_turbulence, user_defined_feature, ichimoko, fails, ind_df>>

\* lines 71-73
StageUserFeature ==
    /\ pc = "user"
    /\ IF user_defined_feature
       THEN /\ df' = add_user_defined_feature(df)
            /\ stages' = Append(stages, "user")
       ELSE UNCHANGED <<df, stages>>
    /\ pc' = "fill"
    /\ UNCHANGED <<self_df, use_technical_indicator, tech_indicator_list,
                   use_turbulence, user_defined_feature, ichimoko, fails, ind_df,
                   turbulence_index, ret, exc>>

\* lines 77-78
StageGapFill ==
    /\ pc = "fill"
    /\ ret' = fillna(df)
    /\ stages' = Append(stages, "fill")
    /\ pc' = "returned"
    /\ UNCHANGED <<self_df, use_technical_indicator, tech_indicator_list,
                   use_turbulence, user_defined_feature, ichimoko, fails, df,
                   ind_df, turbulence_index, exc>>

Next ==
    \/ StageIndicators
    \/ StageTurbulence
    \/ StageUserFeature
    \/ StageGapFill

Spec == Init /\ [][Next]_vars

SpecLong == InitLong /\ [][Next]_vars

----------------------------------------------------------------------------
(* What the claims speak of.                                               *)

Valid(x) == ~IsNaN(x)

\* the float columns of a panel
FloatColumns(data) == Columns(data) \ KeyColumns

\* the number of distinct dates of the panel
NDates(data) == Cardinality(Range(data["date"]))

\* the rows of the panel are in the order of (date, tic)
SortedByDateTic(data) ==
    \A p \in 1..(NRows(data) - 1) : RowLess(data, p, p + 1)

\* the indicator of row p's ticker, computed on that ticker's own rows, at
\* row p's place among them
OwnValue(data, indicator, p) ==
    temp_indicator(data, data["tic"][p], indicator)
        [Cardinality({q \in 1..p : data["tic"][q] = data["tic"][p]})]

\* the indicator stage ran and assigned the column of indicator
Assigned(indicator) ==
    /\ stages = <<"indicators">>
    /\ indicator \in Columns(ind_df)

\* the panel with the close at date d replaced by x
WithCloseAt(data, d, x) ==
    [data EXCEPT !["close"] =
        [p \in 1..NRows(data) |->
            IF data["date"][p] = d THEN Num(x) ELSE data["close"][p]]]

\* the panel with the close of its last date replaced by x
WithLastClose(data, x) ==
    WithCloseAt(data, pivot_index(data)[NDates(data)], x)

\* calcualte_turbulence ended the same way for two panels
SameFrame(t, u) ==
    /\ u.exc = t.exc
    /\ u.date = t.date
    /\ u.turbulence = t.turbulence

\* the frames t and u of two panels with the same dates, neither raised,
\* agree at every date but the last
SameBeforeLast(t, u) ==
    (t.exc = "none" /\ u.exc = "none")
    => \A i \in 1..(Len(t.date) - 1) : u.turbulence[i] = t.turbulence[i]

\* the historical covariance at python index i is singular
SingularAt(data, i) ==
    CovOf(i, SumSeq(hist_price(pivot(data), unique(data["date"]), i), i),
          SumSeq(Squares(hist_price(pivot(data), unique(data["date"]), i)), i))[1] = 0

\* the positive raw scores among the first k iterations of the loop
PositivesUpTo(temps, k) == Cardinality({j \in 1..k : Positive(temps[j])})

----------------------------------------------------------------------------
(* The claims.                                                             *)

\* C1: for a panel with fewer than start distinct dates calcualte_turbulence
\* returns, without raising, one entry per distinct date, every entry 0.
C1_ShortPanelAllZero ==
    (turbulence_index.exc # "unset" /\ NDates(self_df) < start)
    => /\ turbulence_index.exc = "none"
       /\ Len(turbulence_index.turbulence) = NDates(self_df)
       /\ \A k \in 1..Len(turbulence_index.turbulence) :
            turbulence_index.turbulence[k] = Num(0)

\* C2: the count of positive raw scores is cumulative and never reset.  Of
\* the entries after the warm-up, in the order the loop produces them (the
\* order of the dates for a panel in date order), an entry whose raw score
\* temp is positive is 0 if it is the first or second such entry and is temp
\* itself from the third on, and an entry whose raw score is not positive is
\* 0 and does not advance the count.
C2_CumulativeDamping ==
    turbulence_index.exc = "none"
    => \A k \in 1..Len(turbulence_index.temps) :
         turbulence_index.turbulence[start + k] =
            IF /\ Positive(turbulence_index.temps[k])
               /\ PositivesUpTo(turbulence_index.temps, k) >= 3
            THEN turbulence_index.temps[k]
            ELSE Num(0)

\* C2: a score that is not positive stands between positive ones, and the
\* third positive score after it is emitted unchanged.
C2_Witness ==
    /\ turbulence_index.exc = "none"
    /\ \E j, k, l \in 1..Len(turbulence_index.temps) :
         /\ j < k /\ k < l
         /\ Positive(turbulence_index.temps[j])
         /\ ~Positive(turbulence_index.temps[k])
         /\ Positive(turbulence_index.temps[l])
         /\ PositivesUpTo(turbulence_index.temps, l) = 3
         /\ turbulence_index.turbulence[start + l] = turbulence_index.temps[l]
         /\ turbulence_index.turbulence[start + l] # Num(0)

\* C3: the turbulence of the date at chronological index i does not change
\* when the close prices at dates of index > i change: replacing the close
\* of the last date leaves the entry of every earlier date as it is.
C3_LaterRowsDoNotMatter ==
    turbulence_index.exc = "none"
    => \A x \in Prices :
         SameBeforeLast(turbulence_index,
                        calcualte_turbulence(WithLastClose(self_df, x)))

\* C4: when the historical covariance matrix of some date is singular,
\* calcualte_turbulence does not raise and the entry of that date is 0.
C4_SingularGivesZero ==
    turbulence_index.exc # "unset"
    => \A i \in start..(NDates(self_df) - 1) :
         SingularAt(self_df, i)
         => /\ turbulence_index.exc = "none"
            /\ turbulence_index.turbulence[i + 1] = Num(0)

\* C5: when the indicator computation fails for one ticker, the rows of
\* that ticker receive missing values and the rows of every other ticker
\* receive that ticker's own indicator values.
C5_FailingTickerMissing ==
    \A indicator \in Indicators :
      Assigned(indicator)
      => \A p \in 1..NRows(self_df) :
           ind_df[indicator][p] =
              IF <<indicator, self_df["tic"][p]>> \in fails
              THEN NaN
              ELSE OwnValue(self_df, indicator, p)

\* C6: for a panel sorted by (date, tic), whatever its number of tickers,
\* the indicator column holds in the row of (date d, ticker t) the
\* indicator of ticker t's own rows at date d.
C6_OwnTickerOwnDate ==
    \A indicator \in Indicators :
      (/\ Assigned(indicator)
       /\ SortedByDateTic(self_df)
       /\ fails = {})
      => \A p \in 1..NRows(self_df) :
           ind_df[indicator][p] = OwnValue(self_df, indicator, p)

\* C7: the gap-fill replaces a missing cell by the nearest later valid
\* value of its column in row order, by the nearest earlier valid value
\* when there is no later one, and leaves valid cells unchanged.
C7_GapFill ==
    pc = "returned"
    => \A c \in FloatColumns(df) : \A p \in 1..NRows(df) :
         LET later   == {q \in (p + 1)..NRows(df) : Valid(df[c][q])}
             earlier == {q \in 1..(p - 1) : Valid(df[c][q])}
         IN  IF Valid(df[c][p]) THEN ret[c][p] = df[c][p]
             ELSE IF later # {}
             THEN ret[c][p] = df[c][CHOOSE q \in later : \A r \in later : q <= r]
             ELSE earlier # {}
                  => ret[c][p] = df[c][CHOOSE q \in earlier : \A r \in earlier : q >= r]

\* C7: a column with exactly one missing cell, between two valid cells of
\* different values, gets the later value there.
C7_Witness ==
    /\ pc = "returned"
    /\ NRows(df) = 3
    /\ Valid(df["volume"][1])
    /\ IsNaN(df["volume"][2])
    /\ Valid(df["volume"][3])
    /\ df["volume"][1] # df["volume"][3]
    /\ ret["volume"][2] = df["volume"][3]

\* C8: the enabled stages run in the order indicators, turbulence, cloud
\* indicators, user-defined feature, gap-fill, each gated by its own option
\* alone.
C8_StageOrder ==
    pc = "returned"
    => stages = SelectSeq(<<"indicators", "turbulence", "cloud", "user", "fill">>,
                          LAMBDA st : \/ st = "indicators" /\ use_technical_indicator
                                      \/ st = "turbulence" /\ use_turbulence
                                      \/ st = "cloud" /\ ichimoko
                                      \/ st = "user" /\ user_defined_feature
                                      \/ st = "fill")

\* C9, as claimed: the panel preprocess_data returns has no missing cell in
\* any column.
C9_NoMissingCell ==
    pc = "returned"
    => \A c \in FloatColumns(ret) : \A p \in 1..NRows(ret) : Valid(ret[c][p])

\* C9, amended: the panel preprocess_data returns has no missing cell in
\* any column that held a valid value when the gap-fill started, and a
\* column that held only missing values is returned with only missing
\* values.
C9_NoMissingCellWhereValid ==
    pc = "returned"
    => /\ Columns(ret) = Columns(df)
       /\ NRows(ret) = NRows(df)
       /\ \A c \in FloatColumns(ret) :
            IF \E q \in 1..NRows(df) : Valid(df[c][q])
            THEN \A p \in 1..NRows(ret) : Valid(ret[c][p])
            ELSE \A p \in 1..NRows(ret) : IsNaN(ret[c][p])

\* C9: a panel is returned whose volume was missing in its last row and
\* whose daily_return was missing in its first row, with both filled.
C9_Witness ==
    /\ pc = "returned"
    /\ NRows(df) >= 2
    /\ "daily_return" \in Columns(df)
    /\ IsNaN(df["daily_return"][1])
    /\ IsNaN(df["volume"][NRows(df)])
    /\ Valid(df["volume"][1])
    /\ \A c \in FloatColumns(ret) : \A p \in 1..NRows(ret) : Valid(ret[c][p])

\* C10: the date-to-turbulence mapping does not depend on the row order of
\* the panel: it is the mapping computed for the panel in the order of
\* (date, tic), where the loop visits the dates chronologically.
C10_RowOrderDoesNotMatter ==
    turbulence_index.exc # "unset"
    => SameFrame(turbulence_index, calcualte_turbulence(sort_values(self_df)))

====
